---------------------------- MODULE Spec2Model ----------------------------
(***************************************************************************)
(* Model of elgris/sqrl: the prepared-statement cache (stmtCacher and its  *)
(* janitor goroutine), the execution helpers (ExecWith .. QueryRowWith-    *)
(* Context) and the runner adaptation layer (wrapRunner, otherRunner).     *)
(*                                                                         *)
(* Time is counted in hours; the ticker of startCleanup fires once every   *)
(* maxAge hours after the cache is created at hour 0.                      *)
(***************************************************************************)
EXTENDS Integers, Sequences, FiniteSets, TLC

\* ------------------------------------------------------------------ bounds
\* concurrent clients of one cache: hours modelled, calls made, callers
MaxTime == 5
MaxCalls == 2
NumCallers == 2
\* one client following the scenario of hours 0, 1 and 5
ScenTime == 9
ScenCalls == 3
\* the run under fair scheduling
LiveTime == 4
LiveCalls == 2

\* --------------------------------------------------------- program constants
maxAge == 4

Callers == 1..NumCallers
Caller(c) == <<"caller", c>>
Janitor == <<"janitor", 0>>
NoOne == <<"unlocked", 0>>
Queries == {"SELECT 1", "SELECT 2"}
NoQuery == "none"
NoErr == "nil"
PrepErrs == {"prepare: syntax error", "prepare: bad connection"}
NilStmt == 0
\* what v.stmt.Close() can return
CloseErrs == {NoErr, "close: bad connection"}
NoUse == [t |-> -1, stmt |-> NilStmt]

\* ---- sqrl.go: errors, Sqlizers, handles
ErrRunnerNotSet == "cannot run; no Runner set (RunWith)"
ErrRunnerNotQueryRunner == "cannot QueryRow; Runner is not a QueryRower"
ErrRunnerNotQueryRunnerContext == "cannot QueryRow; Runner is not a QueryRowerContext"
ErrRunnerNotQueryer == "cannot Query; Runner is not a Queryer"
ErrRunnerNotQueryerContext == "cannot Query; Runner is not a QueryerContext"

\* the optional capabilities of a handle (Queryer, QueryerContext,
\* QueryRower, QueryRowerContext), named by their method
OptCaps == {"Query", "QueryContext", "QueryRow", "QueryRowContext"}

\* what a Sqlizer's ToSql() can return: (query, args, nil), or an error with
\* whatever query and args it had built
\* an argument value; and the one value a []interface{} becomes when it is
\* passed to a variadic parameter without "..."
Arg(v) == [kind |-> "value", v |-> v]
SliceAsArg(args) == [kind |-> "slice", v |-> args]
ArgLists == {<<>>, <<Arg("a")>>, <<Arg("a"), Arg("b")>>}
RenderErrs == {"values list is empty", "render: bad placeholder"}
Sqlizers ==
    [query : {"SELECT 1"}, args : ArgLists, err : {NoErr}]
    \cup [query : {""}, args : {<<>>, <<Arg("a")>>}, err : RenderErrs]

\* the error a handle's method returns, decided by the driver
DriverErrs == {NoErr, "driver: bad connection"}

\* a BaseRunner: *sql.DB, *sql.Tx, or another type with Exec and ExecContext
\* and any of the optional capabilities
Handles ==
    [type : {"*sql.DB", "*sql.Tx"}, caps : {{}}]
    \cup [type : {"custom"}, caps : SUBSET OptCaps]

NoRunner == [wrap |-> "nil", base |-> [type |-> "nil", caps |-> {}]]
NoOp == [fn |-> "none", query |-> "", args |-> <<>>, rerr |-> NoErr,
         herr |-> NoErr]
Op(fn, query, args, rerr, herr) ==
    [fn |-> fn, query |-> query, args |-> args, rerr |-> rerr, herr |-> herr]
NilValue == <<"nil">>
NoResult == [kind |-> "none", val |-> NilValue, err |-> NoErr]

VARIABLES
    now,          \* the wall clock, in hours since NewStmtCacher
    tickPending,  \* a tick waits in the ticker's channel (buffer of one)
    mu,           \* sc.mu: NoOne, or the process that holds the lock
    cache,        \* sc.cache: query text -> [stmt, lastUse]
    stmts,        \* the *sql.Stmt handles sc.prep has returned: [query, closes, cerr]
    jpc,          \* the janitor's position in startCleanup
    toScan,       \* keys the janitor's range loop has still to visit
    call,         \* per caller: the call in progress
    ncalls,       \* number of calls made so far
    bound,        \* the bounds of the run: [time, calls, callers]
    prev,         \* history, per query text: hour and statement of its last use
    scen,         \* history: the uses of ScenQuery while they follow the scenario
    scanStart,    \* history: hour at which the scan in progress took the lock
    expiredAtTick,\* history: keys that were expired when the current scan began
    usedClosed,   \* history: a caller has run a statement that was closed
    runner,       \* the Runner wrapRunner returned last
    hop,          \* the helper or Runner method called last, with its inputs
    hlog,         \* the calls the handle received from it
    hres          \* what it returned

vars == <<now, tickPending, mu, cache, stmts, jpc, toScan, call, ncalls, bound,
          prev, scen, scanStart, expiredAtTick, usedClosed,
          runner, hop, hlog, hres>>

cacheVars == <<now, tickPending, mu, cache, stmts, jpc, toScan, call, ncalls,
               bound, prev, scen, scanStart, expiredAtTick, usedClosed>>

runVars == <<runner, hop, hlog, hres>>

\* ------------------------------------------------------------ map helpers
MapPut(m, k, v) == [x \in (DOMAIN m) \cup {k} |-> IF x = k THEN v ELSE m[x]]
MapDelete(m, k) == [x \in (DOMAIN m) \ {k} |-> m[x]]
EmptyMap == [x \in {} |-> 0]

Expired_AtMaxAge(lastUse, t) == t - lastUse >= maxAge

\* time.Since(v.lastUse) > maxAge
Expired(lastUse, t) == t - lastUse > maxAge

CanLock_NoMutex(p) == TRUE

\* sc.mu.Lock() can return for process p
CanLock(p) == mu = NoOne

HeldDuringPrepare_Released(c) == NoOne

\* sc.mu while sc.prep.PrepareContext runs: Unlock is deferred to the return
HeldDuringPrepare(c) == Caller(c)

DeferredUnlock_Missing(c) == Caller(c)

\* sc.mu after PrepareContext returned: defer sc.mu.Unlock() has run
DeferredUnlock(c) == NoOne

\* A call in progress.  q, pc, attempts, stmt, err are the program's;
\* cached0 (q was cached when the call was made), seen (calls of
\* sc.prep.PrepareContext for q, by any caller, in progress or issued while
\* this call was in PrepareContext), sawFail (one of them failed), sawEvict (the janitor
\* evicted q meanwhile), seenStmt (the statement the last of those calls
\* returned), peers (the callers whose PrepareContext for q overlapped this
\* one) and got (the error sc.prep returned to this call) are history.
IdleCall == [pc |-> "idle", q |-> NoQuery, attempts |-> 0,
             stmt |-> NilStmt, err |-> NoErr,
             cached0 |-> FALSE, seen |-> 0, sawFail |-> FALSE,
             sawEvict |-> FALSE, seenStmt |-> NilStmt, peers |-> {},
             got |-> NoErr]

InPrepare(c) == call[c].pc \in {"lock", "prep"}

\* no Runner adapted, no helper called yet
InitRun ==
    /\ runner = NoRunner
    /\ hop = NoOp
    /\ hlog = <<>>
    /\ hres = NoResult

InitCache ==
    /\ now = 0
    /\ tickPending = FALSE
    /\ mu = NoOne
    /\ cache = EmptyMap
    /\ stmts = <<>>
    /\ jpc = "wait"
    /\ toScan = {}
    /\ call = [c \in Callers |-> IdleCall]
    /\ ncalls = 0
    /\ prev = [q \in Queries |-> NoUse]
    /\ scen = <<>>
    /\ scanStart = -1
    /\ expiredAtTick = {}
    /\ usedClosed = FALSE

\* NewStmtCacher, used by the callers 1..NumCallers
Init ==
    /\ InitCache
    /\ InitRun
    /\ bound = [time |-> MaxTime, calls |-> MaxCalls, callers |-> NumCallers]

\* NewStmtCacher, used by one caller
InitScen ==
    /\ InitCache
    /\ InitRun
    /\ bound = [time |-> ScenTime, calls |-> ScenCalls, callers |-> 1]

\* NewStmtCacher, used by two callers, for the run under fair scheduling
InitLive ==
    /\ InitCache
    /\ InitRun
    /\ bound = [time |-> LiveTime, calls |-> LiveCalls, callers |-> 2]

\* ------------------------------------------------------------------ clock
\* One hour passes.  time.NewTicker(maxAge) puts a tick in its channel every
\* maxAge hours and drops it when the previous one was not yet received.
Advance ==
    /\ now < bound.time
    /\ now' = now + 1
    /\ tickPending' = IF (now + 1) % maxAge = 0 THEN TRUE ELSE tickPending
    /\ UNCHANGED <<runVars, bound, mu, cache, stmts, jpc, toScan, call, ncalls, prev, scen,
                   scanStart, expiredAtTick, usedClosed>>

\* ---------------------------------------------------------------- callers
\* A caller enters PrepareContext, directly or through ExecContext,
\* QueryContext or QueryRowContext (Prepare, Exec, Query and QueryRow only
\* add context.Background()).
StartCall(c, q) ==
    /\ call[c].pc = "idle"
    /\ c <= bound.callers
    /\ ncalls < bound.calls
    /\ ncalls' = ncalls + 1
    /\ call' = [d \in Callers |->
                  IF d = c
                  THEN [IdleCall EXCEPT
                          !.pc = "lock", !.q = q,
                          !.cached0 = (q \in DOMAIN cache),
                          !.seen = Cardinality({x \in Callers \ {c} :
                                     call[x].pc = "prep" /\ call[x].q = q}),
                          !.peers = {x \in Callers \ {c} :
                                       InPrepare(x) /\ call[x].q = q}]
                  ELSE IF InPrepare(d) /\ call[d].q = q
                       THEN [call[d] EXCEPT !.peers = @ \cup {c}]
                       ELSE [call[d] EXCEPT !.peers = @ \ {c}]]
    /\ UNCHANGED <<runVars, bound, now, tickPending, mu, cache, stmts, jpc, toScan, prev, scen,
                   scanStart, expiredAtTick, usedClosed>>

HitLastUse_Stale(old, t) == old

\* s.lastUse = time.Now() on a cache hit
HitLastUse(old, t) == t

InsertStmt_Fresh(m, q, h, t) ==
    MapPut(EmptyMap, q, [stmt |-> h, lastUse |-> t])

\* sc.cache[query] = &savedStmt{stmt: stmt, lastUse: time.Now()}
InsertStmt(m, q, h, t) == MapPut(m, q, [stmt |-> h, lastUse |-> t])

AfterPrepareError_CacheNil(m, q, e) ==
    MapPut(m, q, [stmt |-> NilStmt, lastUse |-> now])

\* the map after sc.prep.PrepareContext failed with e: return nil, err
AfterPrepareError(m, q, e) == m

\* the error PrepareContext returns when sc.prep.PrepareContext failed with e
PrepareError(e) == e

\* History of the scenario "prepare SELECT 1 at 0h, again at 1h, and once
\* more later": the uses of SELECT 1 so far, each with its hour, whether the
\* statement was found ("hit") or stored ("miss"), the statement, and whether
\* the statement of the first use had been closed by then.  OffScen: the run
\* has left the scenario (other hours, a fourth use, a failed prepare).
ScenQuery == "SELECT 1"
OffScen == <<[t |-> -1, kind |-> "off", stmt |-> NilStmt, closed |-> FALSE]>>
ScenUse(q, kind, h) ==
    LET n == Len(scen)
        u == [t |-> now, kind |-> kind, stmt |-> h,
              closed |-> (n > 0 /\ stmts[scen[1].stmt].closes > 0)]
    IN  IF q # ScenQuery \/ scen = OffScen THEN scen
        ELSE IF kind # "fail" /\ (\/ n = 0 /\ now = 0
                                  \/ n = 1 /\ now = 1
                                  \/ n = 2)
             THEN Append(scen, u)
             ELSE OffScen

\* sc.mu.Lock(), then
\*   if s, ok := sc.cache[query]; ok { s.lastUse = time.Now(); return s.stmt, nil }
\* with the deferred sc.mu.Unlock(); on a miss the lock stays held and the
\* call of sc.prep.PrepareContext(ctx, query) is issued.
PrepareLookup(c) ==
    LET q == call[c].q IN
    /\ call[c].pc = "lock"
    /\ CanLock(Caller(c))
    /\ IF q \in DOMAIN cache
       THEN /\ cache' = [cache EXCEPT ![q].lastUse = HitLastUse(@, now)]
            /\ prev' = [prev EXCEPT ![q] = [t |-> now, stmt |-> cache[q].stmt]]
            /\ scen' = ScenUse(q, "hit", cache[q].stmt)
            /\ call' = [call EXCEPT ![c].pc = "ret",
                                    ![c].stmt = cache[q].stmt]
            /\ mu' = DeferredUnlock(c)
       ELSE /\ call' = [d \in Callers |->
                         IF d = c
                         THEN [call[d] EXCEPT !.pc = "prep",
                                              !.attempts = @ + 1,
                                              !.seen = @ + 1]
                         ELSE IF InPrepare(d) /\ call[d].q = q
                              THEN [call[d] EXCEPT !.seen = @ + 1]
                              ELSE call[d]]
            /\ mu' = HeldDuringPrepare(c)
            /\ UNCHANGED <<cache, prev, scen>>
    /\ UNCHANGED <<runVars, bound, now, tickPending, stmts, jpc, toScan, ncalls,
                   scanStart, expiredAtTick, usedClosed>>

\* sc.prep.PrepareContext returns a new statement: it is stored with
\* lastUse: time.Now() and returned; the deferred sc.mu.Unlock() runs.
PrepareOk(c) ==
    LET q == call[c].q
        h == Len(stmts) + 1
    IN
    /\ call[c].pc = "prep"
    /\ stmts' = Append(stmts, [query |-> q, closes |-> 0, cerr |-> NoErr])
    /\ cache' = InsertStmt(cache, q, h, now)
    /\ prev' = [prev EXCEPT ![q] = [t |-> now, stmt |-> h]]
    /\ scen' = ScenUse(q, "miss", h)
    /\ call' = [d \in Callers |->
                  IF d = c
                  THEN [call[d] EXCEPT !.pc = "ret", !.stmt = h,
                                       !.seenStmt = h]
                  ELSE IF InPrepare(d) /\ call[d].q = q
                       THEN [call[d] EXCEPT !.seenStmt = h]
                       ELSE call[d]]
    /\ mu' = DeferredUnlock(c)
    /\ UNCHANGED <<runVars, bound, now, tickPending, jpc, toScan, ncalls, scanStart, expiredAtTick,
                   usedClosed>>

\* sc.prep.PrepareContext returns an error: if err != nil { return nil, err }
\* and the deferred sc.mu.Unlock() runs.
PrepareFail(c, e) ==
    LET q == call[c].q IN
    /\ call[c].pc = "prep"
    /\ cache' = AfterPrepareError(cache, q, e)
    /\ call' = [d \in Callers |->
                  IF d = c
                  THEN [call[d] EXCEPT !.pc = "ret", !.got = e,
                                       !.err = PrepareError(e),
                                       !.sawFail = TRUE]
                  ELSE IF InPrepare(d) /\ call[d].q = q
                       THEN [call[d] EXCEPT !.sawFail = TRUE]
                       ELSE call[d]]
    /\ scen' = ScenUse(q, "fail", NilStmt)
    /\ mu' = DeferredUnlock(c)
    /\ UNCHANGED <<runVars, bound, now, tickPending, stmts, jpc, toScan, ncalls, prev,
                   scanStart, expiredAtTick, usedClosed>>

\* The rest of a call after PrepareContext returned stmt, err: the caller of
\* Prepare / PrepareContext has them; a wrapper returns on err != nil and
\* otherwise runs the statement it was given.
RunStmt(c, runs) ==
    /\ call[c].pc = "ret"
    /\ call' = [call EXCEPT ![c] = IdleCall]
    /\ usedClosed' = IF call[c].err # NoErr \/ ~runs THEN usedClosed
                     ELSE (usedClosed \/ stmts[call[c].stmt].closes > 0)
    /\ UNCHANGED <<bound, now, tickPending, mu, cache, stmts, jpc, toScan,
                   ncalls, prev, scen, scanStart, expiredAtTick>>

\* Prepare / PrepareContext was called directly
PrepareReturn(c) == RunStmt(c, FALSE) /\ UNCHANGED runVars

\* ExecContext: return stmt.ExecContext(ctx, args...)
ExecContext(c) == RunStmt(c, TRUE) /\ UNCHANGED runVars

\* QueryContext: return stmt.QueryContext(ctx, args...)
QueryContext(c) == RunStmt(c, TRUE) /\ UNCHANGED runVars

\* QueryRowContext: return stmt.QueryRowContext(ctx, args...), or &Row{err: err}
QueryRowContext(c) == RunStmt(c, TRUE) /\ UNCHANGED runVars

\* ---------------------------------------------------------------- janitor
\* for range time.NewTicker(maxAge).C: the loop receives a tick
JanitorTick ==
    /\ jpc = "wait"
    /\ tickPending
    /\ tickPending' = FALSE
    /\ jpc' = "lock"
    /\ UNCHANGED <<runVars, bound, now, mu, cache, stmts, toScan, call, ncalls, prev, scen,
                   scanStart, expiredAtTick, usedClosed>>

\* sc.mu.Lock(); the range loop will visit the keys present now
JanitorLock ==
    /\ jpc = "lock"
    /\ CanLock(Janitor)
    /\ mu' = Janitor
    /\ jpc' = "scan"
    /\ toScan' = DOMAIN cache
    /\ scanStart' = now
    /\ expiredAtTick' = {k \in DOMAIN cache : now - cache[k].lastUse > maxAge}
    /\ UNCHANGED <<runVars, bound, now, tickPending, cache, stmts, call, ncalls, prev, scen,
                   usedClosed>>

Evict_Keep(m, k) == m

\* delete(sc.cache, k)
Evict(m, k) == MapDelete(m, k)

AfterClose_Stops(ce) == IF ce = NoErr THEN "scan" ELSE "stopped"

\* where startCleanup goes on after v.stmt.Close() returned ce: the result
\* is not looked at, the loop continues with delete(sc.cache, k)
AfterClose(ce) == "scan"

\* one iteration of  for k, v := range sc.cache; ce is what v.stmt.Close()
\* returns when the entry is expired
JanitorScanEntry(k, ce) ==
    /\ jpc = "scan"
    /\ k \in toScan
    /\ toScan' = toScan \ {k}
    /\ IF k \in DOMAIN cache /\ Expired(cache[k].lastUse, now)
       THEN /\ stmts' = [stmts EXCEPT ![cache[k].stmt].closes = @ + 1,
                                      ![cache[k].stmt].cerr = ce]
            /\ jpc' = AfterClose(ce)
            /\ cache' = Evict(cache, k)
            /\ call' = [d \in Callers |->
                          IF InPrepare(d) /\ call[d].q = k
                          THEN [call[d] EXCEPT !.sawEvict = TRUE]
                          ELSE call[d]]
       ELSE UNCHANGED <<stmts, cache, call, jpc>>
    /\ UNCHANGED <<runVars, bound, now, tickPending, mu, ncalls, prev, scen,
                   scanStart, expiredAtTick, usedClosed>>

\* sc.mu.Unlock() at the end of the loop body
JanitorUnlock ==
    /\ jpc = "scan"
    /\ toScan = {}
    /\ mu' = NoOne
    /\ jpc' = "wait"
    /\ scanStart' = -1
    /\ expiredAtTick' = {}
    /\ UNCHANGED <<runVars, bound, now, tickPending, cache, stmts, toScan, call, ncalls, prev, scen,
                   usedClosed>>

\* ------------------------------------------------- handles (sqrl.go)
\* the handle's method m is called with (query, args...)
HandleCall(m, query, args) == [method |-> m, query |-> query, args |-> args]

\* what the handle's Exec / Query (and their Context forms) return
HandleReturn(m, query, args, herr) ==
    [kind |-> "pair",
     val |-> IF herr = NoErr THEN <<m, query, args>> ELSE NilValue,
     err |-> herr]

\* the RowScanner the handle's QueryRow / QueryRowContext returns
HandleRow(m, query, args) == <<m, query, args>>

\* &Row{RowScanner: rs, err: err}
Row(rs, err) == [kind |-> "Row", val |-> rs, err |-> err]

\* (nil, err)
NilAnd(err) == [kind |-> "pair", val |-> NilValue, err |-> err]

RenderFailed_Unchecked(s) == FALSE

\* query, args, err := s.ToSql(); if err != nil
RenderFailed(s) == s.err # NoErr

\* ------------------------------------------------- execution helpers
\* the handle calls a helper makes: none when it returns on the render error
CallsAfterRender(m, s) ==
    IF RenderFailed(s) THEN <<>> ELSE <<HandleCall(m, s.query, s.args)>>

\* what the helper returns: (nil, err) of the render, or the handle's pair
ResultAfterRender(m, s, herr) ==
    IF RenderFailed(s) THEN NilAnd(s.err)
    ELSE HandleReturn(m, s.query, s.args, herr)

ExecWith(s, herr) ==
    /\ hop' = Op("ExecWith", s.query, s.args, s.err, herr)
    /\ hlog' = CallsAfterRender("Exec", s)
    /\ hres' = ResultAfterRender("Exec", s, herr)
    /\ UNCHANGED <<cacheVars, runner>>

ExecWithContext(s, herr) ==
    /\ hop' = Op("ExecWithContext", s.query, s.args, s.err, herr)
    /\ hlog' = CallsAfterRender("ExecContext", s)
    /\ hres' = ResultAfterRender("ExecContext", s, herr)
    /\ UNCHANGED <<cacheVars, runner>>

QueryWith(s, herr) ==
    /\ hop' = Op("QueryWith", s.query, s.args, s.err, herr)
    /\ hlog' = CallsAfterRender("Query", s)
    /\ hres' = ResultAfterRender("Query", s, herr)
    /\ UNCHANGED <<cacheVars, runner>>

QueryWithContext(s, herr) ==
    /\ hop' = Op("QueryWithContext", s.query, s.args, s.err, herr)
    /\ hlog' = CallsAfterRender("QueryContext", s)
    /\ hres' = ResultAfterRender("QueryContext", s, herr)
    /\ UNCHANGED <<cacheVars, runner>>

\* query, args, err := s.ToSql()
\* return &Row{RowScanner: db.QueryRow(query, args...), err: err}
QueryRowWith(s) ==
    /\ hop' = Op("QueryRowWith", s.query, s.args, s.err, NoErr)
    /\ hlog' = <<HandleCall("QueryRow", s.query, s.args)>>
    /\ hres' = Row(HandleRow("QueryRow", s.query, s.args), s.err)
    /\ UNCHANGED <<cacheVars, runner>>

QueryRowWithContext(s) ==
    /\ hop' = Op("QueryRowWithContext", s.query, s.args, s.err, NoErr)
    /\ hlog' = <<HandleCall("QueryRowContext", s.query, s.args)>>
    /\ hres' = Row(HandleRow("QueryRowContext", s.query, s.args), s.err)
    /\ UNCHANGED <<cacheVars, runner>>

\* ------------------------------------------------- runner adaptation
\* the dynamic type of the handle satisfies the Runner interface
IsRunner(b) == b.type = "custom" /\ b.caps = OptCaps

wrapRunner_NoRunnerCase(b) ==
    IF b.type = "*sql.DB" THEN [wrap |-> "dbRunner", base |-> b]
    ELSE IF b.type = "*sql.Tx" THEN [wrap |-> "txRunner", base |-> b]
    ELSE [wrap |-> "otherRunner", base |-> b]

\* wrapRunner: the type switch over baseRunner
wrapRunner(b) ==
    IF b.type = "*sql.DB" THEN [wrap |-> "dbRunner", base |-> b]
    ELSE IF b.type = "*sql.Tx" THEN [wrap |-> "txRunner", base |-> b]
    ELSE IF IsRunner(b) THEN [wrap |-> "none", base |-> b]
    ELSE [wrap |-> "otherRunner", base |-> b]

\* the cases of the type switch that are tried on the handle, in the order
\* of the source, up to the one that matches (default is no test)
CasesTried(b) ==
    IF b.type = "*sql.DB" THEN <<"*sql.DB">>
    ELSE IF b.type = "*sql.Tx" THEN <<"*sql.DB", "*sql.Tx">>
    ELSE <<"*sql.DB", "*sql.Tx", "Runner">>

\* one test of the handle's dynamic type
TypeTest(case) == [method |-> "case", query |-> case, args |-> <<>>]

WrapRunner(b) ==
    /\ runner' = wrapRunner(b)
    /\ hop' = Op("wrapRunner", "", <<>>, NoErr, NoErr)
    /\ hlog' = [i \in 1..Len(CasesTried(b)) |-> TypeTest(CasesTried(b)[i])]
    /\ hres' = NoResult
    /\ UNCHANGED cacheVars

Implements_Unchecked(b, cap) == TRUE

\* queryer, ok := r.BaseRunner.(Queryer) and the like
Implements(b, cap) == cap \in b.caps

MissingCapErr_Copied(cap) ==
    IF cap \in {"QueryRow", "QueryRowContext"} THEN ErrRunnerNotQueryRunner
    ELSE ErrRunnerNotQueryer

\* the error otherRunner returns for a capability the handle lacks
MissingCapErr(cap) ==
    CASE cap = "QueryRow" -> ErrRunnerNotQueryRunner
      [] cap = "QueryRowContext" -> ErrRunnerNotQueryRunnerContext
      [] cap = "Query" -> ErrRunnerNotQueryer
      [] cap = "QueryContext" -> ErrRunnerNotQueryerContext

\* otherRunner hands QueryRow and QueryRowContext its args slice as one value
\* (queryRower.QueryRow(query, args)); every other delegation spreads it
PassedArgs(r, m, args) ==
    IF r.wrap = "otherRunner" /\ m \in {"QueryRow", "QueryRowContext"}
    THEN <<SliceAsArg(args)>>
    ELSE args

\* otherRunner lacks the capability m of its handle
Lacks(r, m) == r.wrap = "otherRunner" /\ ~Implements(r.base, m)

\* Exec, ExecContext of a Runner: the handle's own method, promoted from the
\* embedded *sql.DB, *sql.Tx or BaseRunner
RunnerExec(query, args, herr) ==
    /\ runner # NoRunner
    /\ hop' = Op("Exec", query, args, NoErr, herr)
    /\ hlog' = <<HandleCall("Exec", query, args)>>
    /\ hres' = HandleReturn("Exec", query, args, herr)
    /\ UNCHANGED <<cacheVars, runner>>

RunnerExecContext(query, args, herr) ==
    /\ runner # NoRunner
    /\ hop' = Op("ExecContext", query, args, NoErr, herr)
    /\ hlog' = <<HandleCall("ExecContext", query, args)>>
    /\ hres' = HandleReturn("ExecContext", query, args, herr)
    /\ UNCHANGED <<cacheVars, runner>>

\* the calls a Runner's method m makes on the handle
Delegated(r, m, query, args) ==
    IF Lacks(r, m) THEN <<>>
    ELSE <<HandleCall(m, query, PassedArgs(r, m, args))>>

\* Query, QueryContext of a Runner: dbRunner and txRunner delegate to the
\* embedded handle, a handle that is a Runner is called itself, otherRunner
\* delegates when the handle has the capability and fails otherwise
RunnerQuery(query, args, herr) ==
    /\ runner # NoRunner
    /\ hop' = Op("Query", query, args, NoErr, herr)
    /\ hlog' = Delegated(runner, "Query", query, args)
    /\ hres' = IF Lacks(runner, "Query")
               THEN NilAnd(MissingCapErr("Query"))
               ELSE HandleReturn("Query", query,
                                 PassedArgs(runner, "Query", args), herr)
    /\ UNCHANGED <<cacheVars, runner>>

RunnerQueryContext(query, args, herr) ==
    /\ runner # NoRunner
    /\ hop' = Op("QueryContext", query, args, NoErr, herr)
    /\ hlog' = Delegated(runner, "QueryContext", query, args)
    /\ hres' = IF Lacks(runner, "QueryContext")
               THEN NilAnd(MissingCapErr("QueryContext"))
               ELSE HandleReturn("QueryContext", query,
                                 PassedArgs(runner, "QueryContext", args), herr)
    /\ UNCHANGED <<cacheVars, runner>>

\* QueryRow, QueryRowContext of a Runner; otherRunner returns
\* &Row{err: ErrRunnerNotQueryRunner} when the handle lacks the capability
RunnerQueryRow(query, args) ==
    /\ runner # NoRunner
    /\ hop' = Op("QueryRow", query, args, NoErr, NoErr)
    /\ hlog' = Delegated(runner, "QueryRow", query, args)
    /\ hres' = IF Lacks(runner, "QueryRow")
               THEN Row(NilValue, MissingCapErr("QueryRow"))
               ELSE Row(HandleRow("QueryRow", query,
                                  PassedArgs(runner, "QueryRow", args)), NoErr)
    /\ UNCHANGED <<cacheVars, runner>>

RunnerQueryRowContext(query, args) ==
    /\ runner # NoRunner
    /\ hop' = Op("QueryRowContext", query, args, NoErr, NoErr)
    /\ hlog' = Delegated(runner, "QueryRowContext", query, args)
    /\ hres' = IF Lacks(runner, "QueryRowContext")
               THEN Row(NilValue, MissingCapErr("QueryRowContext"))
               ELSE Row(HandleRow("QueryRowContext", query,
                                  PassedArgs(runner, "QueryRowContext", args)),
                        NoErr)
    /\ UNCHANGED <<cacheVars, runner>>

\* ------------------------------------------------- what the calls return
\* the statement run by method m of a wrapper
StmtRun(m, h) == <<m, h>>

\* (stmt, err) of Prepare / PrepareContext
PrepareResult(c) ==
    IF call[c].err # NoErr THEN NilAnd(call[c].err)
    ELSE [kind |-> "pair", val |-> <<"stmt", call[c].stmt>>, err |-> NoErr]

\* (res, err) of ExecContext and (rows, err) of QueryContext
PairResult(m, c) ==
    IF call[c].err # NoErr THEN NilAnd(call[c].err)
    ELSE [kind |-> "pair", val |-> StmtRun(m, call[c].stmt), err |-> NoErr]

QueryRowResult_Silent(c) ==
    IF call[c].err # NoErr THEN Row(NilValue, NoErr)
    ELSE [kind |-> "*sql.Row",
          val |-> StmtRun("stmt.QueryRowContext", call[c].stmt),
          err |-> NoErr]

\* the RowScanner of QueryRowContext: &Row{err: err} when the prepare
\* failed, otherwise the *sql.Row of stmt.QueryRowContext
QueryRowResult(c) ==
    IF call[c].err # NoErr THEN Row(NilValue, call[c].err)
    ELSE [kind |-> "*sql.Row",
          val |-> StmtRun("stmt.QueryRowContext", call[c].stmt),
          err |-> NoErr]

\* the statements a wrapper runs: none when the prepare failed
StmtCalls(m, c) ==
    IF call[c].err # NoErr THEN <<>>
    ELSE <<[method |-> m, query |-> call[c].q, args |-> <<>>]>>

\* The same four returns with the outcome observed: hop is the call (its
\* text and the error sc.prep returned to it), hlog the statements it ran,
\* hres what it returned.
Observed(fn, c, calls, res) ==
    /\ hop' = Op(fn, call[c].q, <<>>, NoErr, call[c].got)
    /\ hlog' = calls
    /\ hres' = res
    /\ UNCHANGED runner

PrepareReturns(c) ==
    /\ RunStmt(c, FALSE)
    /\ Observed("PrepareContext", c, <<>>, PrepareResult(c))

ExecContextReturns(c) ==
    /\ RunStmt(c, TRUE)
    /\ Observed("ExecContext", c, StmtCalls("stmt.ExecContext", c),
                PairResult("stmt.ExecContext", c))

QueryContextReturns(c) ==
    /\ RunStmt(c, TRUE)
    /\ Observed("QueryContext", c, StmtCalls("stmt.QueryContext", c),
                PairResult("stmt.QueryContext", c))

QueryRowContextReturns(c) ==
    /\ RunStmt(c, TRUE)
    /\ Observed("QueryRowContext", c, StmtCalls("stmt.QueryRowContext", c),
                QueryRowResult(c))

NextRun ==
    \/ \E s \in Sqlizers, e \in DriverErrs : ExecWith(s, e)
    \/ \E s \in Sqlizers, e \in DriverErrs : ExecWithContext(s, e)
    \/ \E s \in Sqlizers, e \in DriverErrs : QueryWith(s, e)
    \/ \E s \in Sqlizers, e \in DriverErrs : QueryWithContext(s, e)
    \/ \E s \in Sqlizers : QueryRowWith(s)
    \/ \E s \in Sqlizers : QueryRowWithContext(s)
    \/ \E b \in Handles : WrapRunner(b)
    \/ \E a \in ArgLists, e \in DriverErrs : RunnerExec("SELECT 1", a, e)
    \/ \E a \in ArgLists, e \in DriverErrs : RunnerExecContext("SELECT 1", a, e)
    \/ \E a \in ArgLists, e \in DriverErrs : RunnerQuery("SELECT 1", a, e)
    \/ \E a \in ArgLists, e \in DriverErrs : RunnerQueryContext("SELECT 1", a, e)
    \/ \E a \in ArgLists : RunnerQueryRow("SELECT 1", a)
    \/ \E a \in ArgLists : RunnerQueryRowContext("SELECT 1", a)

Next ==
    \/ Advance
    \/ \E c \in Callers, q \in Queries : StartCall(c, q)
    \/ \E c \in Callers : PrepareLookup(c)
    \/ \E c \in Callers : PrepareOk(c)
    \/ \E c \in Callers, e \in PrepErrs : PrepareFail(c, e)
    \/ \E c \in Callers : PrepareReturn(c)
    \/ \E c \in Callers : ExecContext(c)
    \/ \E c \in Callers : QueryContext(c)
    \/ \E c \in Callers : QueryRowContext(c)
    \/ JanitorTick
    \/ JanitorLock
    \/ \E k \in Queries, ce \in CloseErrs : JanitorScanEntry(k, ce)
    \/ JanitorUnlock

Spec == Init /\ [][Next]_vars

SpecScen == InitScen /\ [][Next]_vars

\* the steps of a call in progress, and of the janitor goroutine
CallerStep(c) ==
    \/ PrepareLookup(c)
    \/ PrepareOk(c)
    \/ \E e \in PrepErrs : PrepareFail(c, e)
    \/ PrepareReturn(c)
    \/ ExecContext(c)

JanitorStep ==
    \/ JanitorTick
    \/ JanitorLock
    \/ \E k \in Queries, ce \in CloseErrs : JanitorScanEntry(k, ce)
    \/ JanitorUnlock

\* Scheduling.  Every goroutine that can take a step is eventually run: the
\* janitor receives a pending tick, scans and unlocks; sc.prep.PrepareContext
\* and stmt.Close return; a wrapper goes on after PrepareContext.  The one
\* step that other goroutines can disable is sc.mu.Lock(): sync.Mutex hands
\* the lock to a goroutine that has waited long enough (starvation mode),
\* so a process waiting in Lock while the lock is released again and again
\* gets it (strong fairness).  Nothing obliges the clock to advance or a
\* caller to make a call.
Fairness ==
    /\ \A c \in Callers : SF_vars(CallerStep(c))
    /\ SF_vars(JanitorStep)

\* the cache with the outcome of every call observed
NextRes ==
    \/ Advance
    \/ \E c \in Callers, q \in Queries : StartCall(c, q)
    \/ \E c \in Callers : PrepareLookup(c)
    \/ \E c \in Callers : PrepareOk(c)
    \/ \E c \in Callers, e \in PrepErrs : PrepareFail(c, e)
    \/ \E c \in Callers : PrepareReturns(c)
    \/ \E c \in Callers : ExecContextReturns(c)
    \/ \E c \in Callers : QueryContextReturns(c)
    \/ \E c \in Callers : QueryRowContextReturns(c)
    \/ JanitorStep

SpecRes == InitLive /\ [][NextRes]_vars

SpecLive == InitLive /\ [][Next]_vars /\ Fairness

\* the execution helpers and the Runner adaptation, without the cache
SpecRun == Init /\ [][NextRun]_vars

\* ================================================================ properties
CachedStmts == {cache[q].stmt : q \in DOMAIN cache}

\* A call that returned a statement, for a text that was not cached when the
\* call was made, with no failed prepare and no eviction of the text while
\* it was in PrepareContext.
Novel(c) ==
    /\ call[c].pc = "ret"
    /\ call[c].err = NoErr
    /\ ~call[c].cached0
    /\ ~call[c].sawFail
    /\ ~call[c].sawEvict

\* C1: callers that are in PrepareContext at the same time for a text that
\* is not yet cached, the prepare succeeding (and the janitor not evicting
\* the text under them, which takes a call that lasts more than maxAge):
\* exactly one call of sc.prep.PrepareContext is made for the text while
\* each of them is in PrepareContext, each returns the statement that call
\* produced, and any two of them return the same statement.
C1Thm ==
    \A c \in Callers :
        Novel(c) =>
            /\ call[c].seen = 1
            /\ call[c].stmt = call[c].seenStmt
            /\ \A d \in call[c].peers :
                   Novel(d) /\ call[d].q = call[c].q =>
                       call[d].stmt = call[c].stmt

C1Witness ==
    \E c, d \in Callers :
        /\ c # d
        /\ d \in call[c].peers
        /\ Novel(c) /\ Novel(d)
        /\ call[c].q = call[d].q
        /\ call[c].attempts = 1
        /\ call[d].attempts = 0

\* C2: a PrepareContext(q) that looks q up no more than maxAge after the
\* previous use of q (the hour the previous call read from time.Now()) is a
\* cache hit: it returns the statement of the previous use and makes no
\* call of sc.prep.PrepareContext, whatever the janitor did in between.
C2Step ==
    \A c \in Callers :
        (/\ call[c].pc = "lock"
         /\ call'[c].pc # "lock"
         /\ prev[call[c].q].t >= 0
         /\ now <= prev[call[c].q].t + maxAge)
        => /\ call'[c].pc = "ret"
           /\ call'[c].stmt = prev[call[c].q].stmt
           /\ call'[c].attempts = 0
           /\ stmts' = stmts

C2Thm == [][C2Step]_vars

C2Witness ==
    \E c \in Callers :
        /\ call[c].pc = "ret"
        /\ call[c].attempts = 0
        /\ call[c].stmt # NilStmt
        /\ now = maxAge
        /\ prev[call[c].q].t = maxAge
        /\ ~tickPending
        /\ jpc = "wait"

\* C3: when a janitor scan has visited every entry, no key that was expired
\* (idle for more than maxAge) when the scan took the lock is in the map;
\* no statement has been closed more than once, and a statement that is no
\* longer in the map has been closed exactly once.
C3Thm ==
    /\ (jpc = "scan" /\ toScan = {}) => expiredAtTick \cap DOMAIN cache = {}
    /\ \A h \in 1..Len(stmts) :
          /\ stmts[h].closes <= 1
          /\ h \notin CachedStmts => stmts[h].closes = 1

C3Witness ==
    /\ jpc = "scan"
    /\ toScan = {}
    /\ expiredAtTick # {}

\* C4 as stated: after prepare at 0h (one prepare call) and at 1h (a hit),
\* the prepare at 5h makes a new call of sc.prep.PrepareContext.
C4Orig ==
    (scen # OffScen /\ Len(scen) = 3 /\ scen[3].t = 5) =>
        /\ scen[1].kind = "miss"
        /\ scen[2].kind = "hit" /\ scen[2].stmt = scen[1].stmt
        /\ scen[3].kind = "miss"

\* C4 amended: prepare at 0h makes one prepare call; prepare at 1h is a hit
\* on the same statement; the entry, last used at 1h, stays in the map up to
\* 5h (at the 4h tick it is idle for 3h only), so a prepare at 5h or before
\* is again a hit on the same statement; the first scan that takes the lock
\* after 5h removes the entry and closes its statement, and the third
\* prepare makes a new prepare call exactly when that has happened.
C4Thm ==
    LET n == Len(scen) IN
    scen # OffScen =>
        /\ n >= 1 => scen[1].kind = "miss"
        /\ n >= 2 => scen[2].kind = "hit" /\ scen[2].stmt = scen[1].stmt
        /\ (n = 2 /\ now <= 5) =>
              /\ ScenQuery \in DOMAIN cache
              /\ cache[ScenQuery].stmt = scen[1].stmt
        /\ (n = 2 /\ jpc = "scan" /\ toScan = {} /\ scanStart > 5) =>
              /\ ScenQuery \notin DOMAIN cache
              /\ stmts[scen[1].stmt].closes = 1
        /\ n = 3 =>
              IF scen[3].closed
              THEN /\ scen[3].kind = "miss"
                   /\ scen[3].stmt # scen[1].stmt
                   /\ scen[3].t > 5
              ELSE /\ scen[3].kind = "hit"
                   /\ scen[3].stmt = scen[1].stmt

C4Witness ==
    /\ scen # OffScen
    /\ Len(scen) = 3
    /\ scen[3].t = 5
    /\ scen[3].kind = "hit"

\* ------------------------------------------------- helpers and runners
RenderingHelpers ==
    {"ExecWith", "ExecWithContext", "QueryWith", "QueryWithContext"}

RowHelpers == {"QueryRowWith", "QueryRowWithContext"}

\* C5: when ToSql fails in ExecWith, ExecWithContext, QueryWith or
\* QueryWithContext, no method of the handle is called and the error
\* returned is exactly the render error (with a nil first result).
C5Thm ==
    (hop.fn \in RenderingHelpers /\ hop.rerr # NoErr)
        => /\ hlog = <<>>
           /\ hres.kind = "pair"
           /\ hres.val = NilValue
           /\ hres.err = hop.rerr

\* a render failure in a helper whose handle would have failed differently
C5Witness ==
    /\ hop.fn = "QueryWithContext"
    /\ hop.rerr = "values list is empty"
    /\ hop.herr = "driver: bad connection"
    /\ hlog = <<>>
    /\ hres.err = "values list is empty"

\* C6 as stated: when ToSql fails in QueryRowWith or QueryRowWithContext,
\* the handle's QueryRow / QueryRowContext is not called and the helper
\* returns a non-nil Row that carries exactly the render error.
C6Claim ==
    (hop.fn \in RowHelpers /\ hop.rerr # NoErr)
        => /\ hlog = <<>>
           /\ hres.kind = "Row"
           /\ hres.err = hop.rerr

\* a handle that implements only Exec and ExecContext
ExecOnly(b) == b.type = "custom" /\ b.caps = {}

\* C7: wrapRunner of a handle with only Exec / ExecContext gives a runner
\* whose Query returns (nil, ErrRunnerNotQueryer) without calling the
\* handle, and whose Exec / ExecContext reach the handle with the same
\* query and the same argument sequence and return the handle's result.
C7Thm ==
    (runner # NoRunner /\ ExecOnly(runner.base))
        => /\ runner.wrap = "otherRunner"
           /\ hop.fn = "Query"
                => /\ hlog = <<>>
                   /\ hres.val = NilValue
                   /\ hres.err = ErrRunnerNotQueryer
           /\ hop.fn \in {"Exec", "ExecContext"}
                => /\ Len(hlog) = 1
                   /\ hlog[1].method = hop.fn
                   /\ hlog[1].query = hop.query
                   /\ hlog[1].args = hop.args
                   /\ hres.err = hop.herr
                   /\ hop.herr = NoErr
                        => hres.val = <<hop.fn, hop.query, hop.args>>

\* Query on the wrapped execute-only handle has failed
C7Witness ==
    /\ runner # NoRunner
    /\ ExecOnly(runner.base)
    /\ hop.fn = "Query"
    /\ hop.args = <<Arg("a"), Arg("b")>>
    /\ hlog = <<>>
    /\ hres.err = ErrRunnerNotQueryer

RunnerErrs ==
    {ErrRunnerNotSet, ErrRunnerNotQueryRunner, ErrRunnerNotQueryRunnerContext,
     ErrRunnerNotQueryer, ErrRunnerNotQueryerContext}

\* the error each capability stands for in the source
CapErr ==
    [Query |-> ErrRunnerNotQueryer,
     QueryRow |-> ErrRunnerNotQueryRunner,
     QueryContext |-> ErrRunnerNotQueryerContext,
     QueryRowContext |-> ErrRunnerNotQueryRunnerContext]

\* C8: wrapRunner returns a runner for every custom handle, whatever subset
\* of Query, QueryRow, QueryContext, QueryRowContext it lacks; calling a
\* capability the handle lacks does not reach the handle and yields that
\* capability's own error (inside a non-nil Row for the single-row
\* methods); the four errors and ErrRunnerNotSet are pairwise distinct.
C8Thm ==
    /\ Cardinality(RunnerErrs) = 5
    /\ \A b \in Handles :
          wrapRunner(b).wrap \in {"dbRunner", "txRunner", "none", "otherRunner"}
    /\ (/\ runner # NoRunner
        /\ runner.base.type = "custom"
        /\ hop.fn \in OptCaps \ runner.base.caps)
        => /\ hlog = <<>>
           /\ hres.val = NilValue
           /\ hres.err = CapErr[hop.fn]
           /\ hres.kind =
                IF hop.fn \in {"QueryRow", "QueryRowContext"}
                THEN "Row" ELSE "pair"

\* QueryRowContext on a handle that has Query but not QueryRowContext
C8Witness ==
    /\ runner # NoRunner
    /\ runner.base.type = "custom"
    /\ runner.base.caps = {"Query"}
    /\ hop.fn = "QueryRowContext"
    /\ hlog = <<>>
    /\ hres = Row(NilValue, ErrRunnerNotQueryRunnerContext)

\* C9: when sc.prep.PrepareContext fails, PrepareContext returns that error
\* and no statement, after one attempt; the failing call leaves the map as
\* it was; no entry of the map holds a failure; and a call that finds its
\* text absent always contacts sc.prep.
C9Inv ==
    /\ \A c \in Callers :
          (call[c].pc = "ret" /\ call[c].got # NoErr) =>
              /\ call[c].err = call[c].got
              /\ call[c].stmt = NilStmt
              /\ call[c].attempts = 1
    /\ \A q \in DOMAIN cache : cache[q].stmt # NilStmt

C9Step ==
    \A c \in Callers :
        /\ (call[c].pc = "prep" /\ call'[c].got # NoErr) =>
              (cache' = cache /\ stmts' = stmts)
        /\ (/\ call[c].pc = "lock"
            /\ call'[c].pc # "lock"
            /\ call[c].q \notin DOMAIN cache) =>
              /\ call'[c].pc = "prep"
              /\ call'[c].attempts = 1
              /\ cache' = cache

C9Thm == []C9Inv /\ [][C9Step]_vars

C9Witness ==
    \E c, d \in Callers :
        /\ call[c].pc = "ret"
        /\ call[c].got \in PrepErrs
        /\ call[d].pc = "prep"
        /\ call[d].q = call[c].q

\* C10: the map holds at most one entry per text, each entry's statement is
\* the one open statement prepared for that text, entries of different
\* texts hold different statements, and the map or an entry's lastUse
\* changes only in a step of the process that holds sc.mu (a caller that
\* takes the lock in that step, a caller whose prepare returns, or the
\* janitor in its scan).
C10Inv ==
    /\ \A q \in DOMAIN cache :
          /\ cache[q].stmt \in 1..Len(stmts)
          /\ stmts[cache[q].stmt].query = q
          /\ stmts[cache[q].stmt].closes = 0
    /\ \A q1, q2 \in DOMAIN cache :
          q1 # q2 => cache[q1].stmt # cache[q2].stmt
    /\ \A q \in Queries :
          Cardinality({h \in 1..Len(stmts) :
                         stmts[h].query = q /\ stmts[h].closes = 0}) <= 1

C10Step ==
    cache' # cache =>
        \/ mu = Janitor /\ mu' = Janitor /\ jpc = "scan" /\ toScan' # toScan
        \/ \E c \in Callers :
              /\ call[c].pc = "prep" /\ call'[c].pc = "ret"
              /\ mu = Caller(c)
        \/ \E c \in Callers :
              /\ call[c].pc = "lock" /\ call'[c].pc = "ret"
              /\ mu = NoOne

C10Thm == []C10Inv /\ [][C10Step]_vars

C10Witness ==
    /\ DOMAIN cache = Queries
    /\ cache["SELECT 1"].stmt # cache["SELECT 2"].stmt

\* the processes inside a critical section of sc.mu: a caller between the
\* miss and the return of sc.prep.PrepareContext, the janitor in its scan
InCritical ==
    {Caller(c) : c \in {x \in Callers : call[x].pc = "prep"}}
        \cup (IF jpc = "scan" THEN {Janitor} ELSE {})

\* C11: at most one of the PrepareContext calls (underlying prepare
\* included) and the janitor's scan is inside its critical section, and it
\* is the holder of sc.mu; so at most one call of sc.prep.PrepareContext is
\* in flight, whatever the texts; and no step closes a statement or removes
\* an entry while a caller is between its lookup and its return.
C11Inv ==
    /\ Cardinality(InCritical) <= 1
    /\ InCritical = IF mu = NoOne THEN {} ELSE {mu}
    /\ Cardinality({c \in Callers : call[c].pc = "prep"}) <= 1

C11Step ==
    (\/ \E h \in 1..Len(stmts) : stmts'[h].closes # stmts[h].closes
     \/ DOMAIN cache \ DOMAIN cache' # {})
        => /\ mu = Janitor
           /\ \A c \in Callers :
                 call[c].pc # "prep" /\ call'[c].pc = call[c].pc

C11Thm == []C11Inv /\ [][C11Step]_vars

\* one caller in its underlying prepare, another caller with a different
\* text and the janitor both waiting for sc.mu
C11Witness ==
    \E c, d \in Callers :
        /\ call[c].pc = "prep"
        /\ call[d].pc = "lock"
        /\ call[d].q # call[c].q
        /\ jpc = "lock"
        /\ mu = Caller(c)

\* C12: under fair scheduling, with sc.prep.PrepareContext and stmt.Close
\* returning, no process stays in an operation for ever: every caller is
\* again and again outside any call (every call returns), the janitor is
\* again and again not waiting in sc.mu.Lock() and not scanning (it gets the
\* lock, and every scan ends with the lock released), and sc.mu is again
\* and again free.
C12Thm ==
    /\ \A c \in Callers : []<>(call[c].pc = "idle")
    /\ []<>(jpc # "lock")
    /\ []<>(jpc # "scan")
    /\ []<>(mu = NoOne)

\* the janitor scans under the lock while a caller waits in sc.mu.Lock()
C12Witness ==
    \E c \in Callers :
        /\ jpc = "scan"
        /\ toScan # {}
        /\ mu = Janitor
        /\ call[c].pc = "lock"

\* the errors stmt.Close() has returned to the janitor
CloseFailures == CloseErrs \ {NoErr}

\* C13: when v.stmt.Close() returns an error the janitor goes on: it stays
\* in its loop with the lock, the entry is removed in the same step, the
\* keys still to visit are visited (at the end of the scan no key that was
\* expired at its start is left), no statement whose Close failed is in the
\* map, and no call on the cache returns a Close error.
C13Inv ==
    /\ jpc \in {"wait", "lock", "scan"}
    /\ \A h \in 1..Len(stmts) :
          stmts[h].cerr \in CloseFailures => h \notin CachedStmts
    /\ (jpc = "scan" /\ toScan = {}) =>
          \A k \in expiredAtTick : k \notin DOMAIN cache
    /\ \A c \in Callers :
          call[c].err \notin CloseFailures /\ call[c].got \notin CloseFailures

C13Step ==
    \A h \in 1..Len(stmts) :
        (stmts[h].cerr = NoErr /\ stmts'[h].cerr \in CloseFailures) =>
            /\ jpc' = "scan"
            /\ mu' = Janitor
            /\ stmts[h].query \in toScan
            /\ toScan' = toScan \ {stmts[h].query}
            /\ DOMAIN cache' = DOMAIN cache \ {stmts[h].query}
            /\ stmts'[h].closes = 1

C13Thm == []C13Inv /\ [][C13Step]_vars

\* the Close of the first statement failed, the statement of the other text
\* was closed as well, and the scan of a later tick is running
C13Witness ==
    /\ Len(stmts) >= 2
    /\ stmts[1].cerr \in CloseFailures
    /\ stmts[2].query # stmts[1].query
    /\ stmts[2].closes = 1
    /\ jpc = "scan"
    /\ scanStart >= 2 * maxAge

\* caller c is back from PrepareContext with a statement, inside a wrapper,
\* and the statement has been closed since
HoldsClosed(c) ==
    /\ call[c].pc = "ret"
    /\ call[c].err = NoErr
    /\ stmts[call[c].stmt].closes > 0

\* C14: nothing pins a statement between the return of PrepareContext and
\* its use: a caller can hold a statement that the janitor has evicted and
\* closed, and then run it.  It takes a caller that holds the statement for
\* more than maxAge: a held statement that is closed has been closed once,
\* is in no entry of the map, and the clock is past maxAge, as it is
\* whenever a closed statement has been run.
C14Thm ==
    /\ \A c \in Callers :
          HoldsClosed(c) =>
              /\ now > maxAge
              /\ call[c].stmt \notin CachedStmts
              /\ stmts[call[c].stmt].closes = 1
    /\ usedClosed => now > maxAge

\* a wrapper has run a statement that the janitor had closed
C14Witness ==
    /\ usedClosed
    /\ mu = NoOne
    /\ \E h \in 1..Len(stmts) : stmts[h].closes = 1

\* C15: when the prepare fails, QueryRow / QueryRowContext of the cache
\* returns a non-nil Row that carries exactly the error sc.prep returned,
\* runs no statement, and the call that failed has added nothing to the map
\* and obtained no statement.
C15Inv ==
    (hop.fn = "QueryRowContext" /\ hop.herr # NoErr) =>
        /\ hres.kind = "Row"
        /\ hres.err = hop.herr
        /\ hres.val = NilValue
        /\ hlog = <<>>

C15Step ==
    \A c \in Callers :
        /\ (call[c].pc = "prep" /\ call'[c].got # NoErr) =>
              /\ DOMAIN cache' = DOMAIN cache
              /\ call'[c].stmt = NilStmt
              /\ Len(stmts') = Len(stmts)
        /\ (call[c].pc = "ret" /\ call[c].got # NoErr /\ call'[c].pc = "idle") =>
              /\ cache' = cache
              /\ stmts' = stmts
              /\ usedClosed' = usedClosed

C15Thm == []C15Inv /\ [][C15Step]_vars

\* QueryRowContext has returned the Row of a failed prepare while the text
\* is still absent from the map
C15Witness ==
    /\ hop.fn = "QueryRowContext"
    /\ hop.herr = "prepare: bad connection"
    /\ hres = Row(NilValue, "prepare: bad connection")
    /\ hop.query \notin DOMAIN cache

Builtin(b) == b.type \in {"*sql.DB", "*sql.Tx"}

\* the type tests made by the wrapRunner call just done, in order
TestsMade == [i \in 1..Len(hlog) |-> hlog[i].query]

\* C16 as stated: the full Runner contract is tested first, the built-in
\* types second, and a handle with the full contract is returned as it is.
C16Orig ==
    hop.fn = "wrapRunner" =>
        /\ TestsMade[1] = "Runner"
        /\ IsRunner(runner.base) => runner.wrap = "none"

\* C16 amended: the type switch tests *sql.DB, then *sql.Tx, then Runner,
\* and wraps anything else in otherRunner; *sql.DB and *sql.Tx get dbRunner
\* and txRunner without the Runner test being reached; no built-in type
\* has the full contract, so a handle that has it is always returned as it
\* is, after the two built-in tests failed.
C16Thm ==
    /\ \A b \in Handles :
          /\ Builtin(b) => ~IsRunner(b)
          /\ IsRunner(b) => wrapRunner(b) = [wrap |-> "none", base |-> b]
    /\ hop.fn = "wrapRunner" =>
          /\ runner.wrap =
                CASE runner.base.type = "*sql.DB" -> "dbRunner"
                  [] runner.base.type = "*sql.Tx" -> "txRunner"
                  [] IsRunner(runner.base) -> "none"
                  [] OTHER -> "otherRunner"
          /\ TestsMade =
                CASE runner.wrap = "dbRunner" -> <<"*sql.DB">>
                  [] runner.wrap = "txRunner" -> <<"*sql.DB", "*sql.Tx">>
                  [] OTHER -> <<"*sql.DB", "*sql.Tx", "Runner">>

\* a handle with the full contract came back unwrapped, the built-in tests
\* made before the Runner test
C16Witness ==
    /\ hop.fn = "wrapRunner"
    /\ IsRunner(runner.base)
    /\ runner.wrap = "none"
    /\ TestsMade = <<"*sql.DB", "*sql.Tx", "Runner">>

\* C17 as stated: for a custom handle behind otherRunner that has the
\* capability, Query, QueryContext, QueryRow and QueryRowContext each call
\* the handle's method of the same name once, with the caller's query and
\* the caller's argument sequence, and return its result.
C17Claim ==
    (/\ runner.wrap = "otherRunner"
     /\ hop.fn \in OptCaps \cap runner.base.caps)
        => /\ Len(hlog) = 1
           /\ hlog[1].method = hop.fn
           /\ hlog[1].query = hop.query
           /\ hlog[1].args = hop.args
           /\ hres.err = hop.herr
           /\ hop.herr = NoErr => hres.val = <<hop.fn, hop.query, hop.args>>

\* the last hour, up to hour t, at which the ticker fired
LatestTick(t) == maxAge * (t \div maxAge)

\* the first tick at which an entry last used at hour u is idle for more
\* than maxAge
FirstExpiringTick(u) == maxAge * ((u \div maxAge) + 2)

\* the keys a step removes from the map
Evicted == DOMAIN cache \ DOMAIN cache'

\* C18 as stated: an entry is evicted only if it was idle for more than
\* maxAge at the tick, and a scan that runs at the hour of its tick evicts
\* entries strictly less than 2 x maxAge after their last use.
C18OrigStep ==
    \A k \in Evicted :
        /\ LatestTick(scanStart) - cache[k].lastUse > maxAge
        /\ (now = scanStart /\ scanStart = LatestTick(scanStart)) =>
              now - cache[k].lastUse < 2 * maxAge

C18Orig == [][C18OrigStep]_vars

\* C18 amended: idle time is read when the scan visits the entry, not at
\* the tick: an entry is evicted only if it is then idle for more than
\* maxAge, which a scan that waited for the lock can find of an entry that
\* was idle for maxAge or less at the tick.  When a scan has visited every
\* entry, the entries left were idle for at most maxAge when it took the
\* lock.  The first tick at which an entry last used at hour u is idle for
\* more than maxAge comes more than maxAge and at most 2 x maxAge after u,
\* exactly 2 x maxAge when u is itself the hour of a tick.
C18Inv ==
    /\ (jpc = "scan" /\ toScan = {}) =>
          \A k \in DOMAIN cache : scanStart - cache[k].lastUse <= maxAge
    /\ \A u \in 0..bound.time :
          LET T == FirstExpiringTick(u) IN
          /\ T = LatestTick(T)
          /\ Expired(u, T)
          /\ ~Expired(u, T - maxAge)
          /\ T - u <= 2 * maxAge
          /\ (T - u = 2 * maxAge) <=> (u = LatestTick(u))

C18Step ==
    \A k \in Evicted :
        /\ now - cache[k].lastUse > maxAge
        /\ jpc = "scan"
        /\ scanStart <= now

C18Thm == []C18Inv /\ [][C18Step]_vars

\* between the bounds: SELECT 1, last used at 1h, is found in the map more
\* than maxAge later
C18Witness ==
    /\ scen # OffScen
    /\ Len(scen) = 3
    /\ scen[3].kind = "hit"
    /\ scen[3].t - scen[2].t > maxAge
    /\ scen[3].t - scen[2].t < 2 * maxAge

\* the entries of every text but q are the same before and after the step
OthersKept(q) ==
    /\ DOMAIN cache' \ {q} = DOMAIN cache \ {q}
    /\ \A k \in DOMAIN cache \ {q} : cache'[k] = cache[k]

\* C19: a step of PrepareContext(q) leaves the entries of all other texts
\* as they were; a hit keeps the key set and every statement and sets q's
\* lastUse to the current hour, never earlier than it was; a successful
\* miss adds the one entry of q, with the new statement, and changes no
\* statement; a failed miss changes nothing; a step of the janitor's scan
\* removes only entries idle for more than maxAge and leaves every entry it
\* keeps as it was.
C19Step ==
    /\ \A c \in Callers :
          LET q == call[c].q IN
          /\ (call[c].pc = "lock" /\ call'[c].pc = "ret") =>
                /\ OthersKept(q)
                /\ DOMAIN cache' = DOMAIN cache
                /\ cache'[q].stmt = cache[q].stmt
                /\ cache'[q].lastUse = now
                /\ cache'[q].lastUse >= cache[q].lastUse
                /\ stmts' = stmts
          /\ (call[c].pc = "lock" /\ call'[c].pc = "prep") => cache' = cache
          /\ (call[c].pc = "prep" /\ call'[c].pc = "ret") =>
                /\ OthersKept(q)
                /\ q \notin DOMAIN cache
                /\ IF call'[c].err = NoErr
                   THEN /\ DOMAIN cache' = DOMAIN cache \cup {q}
                        /\ cache'[q] = [stmt |-> Len(stmts'), lastUse |-> now]
                        /\ Len(stmts') = Len(stmts) + 1
                        /\ \A h \in 1..Len(stmts) : stmts'[h] = stmts[h]
                   ELSE cache' = cache /\ stmts' = stmts
    /\ (jpc = "scan" /\ cache' # cache) =>
          /\ \A k \in DOMAIN cache' : k \in DOMAIN cache /\ cache'[k] = cache[k]
          /\ \A k \in DOMAIN cache \ DOMAIN cache' :
                now - cache[k].lastUse > maxAge

C19Thm == [][C19Step]_vars

\* a miss has just added the second text next to the entry of the first,
\* which was last used earlier
C19Witness ==
    \E c \in Callers :
        /\ call[c].pc = "ret"
        /\ call[c].attempts = 1
        /\ call[c].err = NoErr
        /\ DOMAIN cache = Queries
        /\ cache[call[c].q].lastUse = now
        /\ \E k \in Queries : cache[k].lastUse < now

\* the texts whose entry holds statement h
EntriesOf(h) == {q \in DOMAIN cache : cache[q].stmt = h}

\* C20: whenever sc.mu is free, every statement sc.prep has returned is
\* either open and the statement of exactly one entry, or has been closed
\* (once, by the janitor) and is in no entry; so no open statement is
\* outside the map and no entry holds a closed one; and every entry holds a
\* statement that sc.prep returned.
C20Thm ==
    mu = NoOne =>
        /\ \A h \in 1..Len(stmts) :
              \/ stmts[h].closes = 0 /\ Cardinality(EntriesOf(h)) = 1
              \/ stmts[h].closes = 1 /\ EntriesOf(h) = {}
        /\ \A q \in DOMAIN cache : cache[q].stmt \in 1..Len(stmts)

\* with the lock free, one statement has been evicted and closed and
\* another is open in the map
C20Witness ==
    /\ mu = NoOne
    /\ jpc = "wait"
    /\ \E h, g \in 1..Len(stmts) :
          /\ stmts[h].closes = 1 /\ EntriesOf(h) = {}
          /\ stmts[g].closes = 0 /\ EntriesOf(g) # {}

=============================================================================
